---- MODULE Spec2Model ----
(***************************************************************************)
(* Model of server/app/main.py: the FastAPI application bootstrap.         *)
(*                                                                         *)
(* The module body of main.py runs once, top to bottom: it imports the     *)
(* settings object and the API router, creates the FastAPI application,    *)
(* installs CORSMiddleware, includes the router under "/api" and registers *)
(* the root endpoint.  After that the ASGI server hands requests to `app`. *)
(*                                                                         *)
(* A path is modelled as the sequence of its segments, that is, what       *)
(* path.split("/")[1:] yields in Python:                                   *)
(*     ""            <<>>                                                  *)
(*     "/"           <<"">>                                                *)
(*     "/api"        <<"api">>                                             *)
(*     "/api/"       <<"api", "">>                                         *)
(*     "/api/items"  <<"api", "items">>                                    *)
(* so concatenating two such strings is concatenating the sequences.       *)
(*                                                                         *)
(* A header table (request or response) is a function from header names    *)
(* to values; an absent header is a name outside the DOMAIN.               *)
(***************************************************************************)
EXTENDS Integers, Sequences, FiniteSets, TLC

VARIABLES
    pc,             \* position in the module body, then "serving" or "failed"
    settings,       \* the imported settings object
    api_router,     \* the imported router object
    app,            \* the FastAPI application object
    startup_error,  \* an exception was raised while the module body ran
    inFlight,       \* number of requests accepted and not yet answered
    nServed,        \* number of requests answered so far
    last,           \* the most recent exchange: request, response, who answered
    firstRoot       \* the first exchange whose request was GET "/"

vars == <<pc, settings, api_router, app, startup_error, inFlight, nServed, last, firstRoot>>

\* Bound on the number of requests answered in one behaviour.
MaxRequests == 2
\* Bound on the number of requests being served at the same time.
MaxInFlight == 2

\* A name that is not bound yet / an exchange that has not happened.
Undefined == [undefined |-> TRUE]
IsDefined(v) == "undefined" \notin DOMAIN v

(***************************************************************************)
(* Collaborators outside main.py.                                          *)
(***************************************************************************)

\* app.core.settings: an object exposing APP_NAME, a string.
AppNames == {"", "MyService"}
SettingsObjects == [APP_NAME : AppNames]

\* app.api.routes: a router object, a table of routes with paths relative
\* to the prefix it is included under.  "{id}" is a path parameter.
RouterTables ==
    { << [path |-> <<"items">>, methods |-> {"GET", "POST"}, endpoint |-> "items"] >>,
      << [path |-> <<>>, methods |-> {"GET"}, endpoint |-> "api_index"],
         [path |-> <<"items", "{id}">>, methods |-> {"GET"}, endpoint |-> "get_item"] >> }
RouterObjects == [routes : RouterTables]

\* What a handler of the router may do with a request it receives: answer
\* with some status, or raise.
HandlerOutcomes == {"200", "404", "raise"}

(***************************************************************************)
(* Helpers.                                                                *)
(***************************************************************************)

Range(s) == {s[i] : i \in 1..Len(s)}

\* ", ".join(s)
RECURSIVE Join(_)
Join(s) ==
    IF Len(s) = 0 THEN ""
    ELSE IF Len(s) = 1 THEN s[1]
    ELSE s[1] \o ", " \o Join(Tail(s))

\* path.rstrip("/")
RECURSIVE RStrip(_)
RStrip(path) ==
    IF Len(path) > 0 /\ path[Len(path)] = ""
    THEN RStrip(SubSeq(path, 1, Len(path) - 1))
    ELSE path

\* path.endswith("/")
EndsWithSlash(path) == Len(path) > 0 /\ path[Len(path)] = ""

(***************************************************************************)
(* main.py line 7: app = FastAPI(title=settings.APP_NAME).                 *)
(* The constructor registers the documentation routes of the framework     *)
(* (openapi_url, docs_url, swagger_ui_oauth2_redirect_url, redoc_url keep  *)
(* their defaults, since main.py passes only the title).                   *)
(***************************************************************************)

DocsRoutes ==
    << [path |-> <<"openapi.json">>, methods |-> {"GET", "HEAD"},
        endpoint |-> "openapi", owner |-> "docs"],
       [path |-> <<"docs">>, methods |-> {"GET", "HEAD"},
        endpoint |-> "swagger_ui_html", owner |-> "docs"],
       [path |-> <<"docs", "oauth2-redirect">>, methods |-> {"GET", "HEAD"},
        endpoint |-> "swagger_ui_redirect", owner |-> "docs"],
       [path |-> <<"redoc">>, methods |-> {"GET", "HEAD"},
        endpoint |-> "redoc_html", owner |-> "docs"] >>

FastAPI(title) ==
    [title |-> title, user_middleware |-> <<>>, routes |-> DocsRoutes]

(***************************************************************************)
(* main.py lines 10-16: app.add_middleware(CORSMiddleware, ...).           *)
(***************************************************************************)

\* Variants of the literals, as a slip in main.py would write them.
allow_origins_trailing_slash == <<"http://localhost:5173/">>
allow_origins_any == <<"*">>
allow_methods_default == <<"GET">>

allow_origins == <<"http://localhost:5173">>
allow_credentials == TRUE
allow_methods == <<"*">>
allow_headers == <<"*">>

\* The keyword arguments of the call.
cors_options ==
    [allow_origins     |-> allow_origins,
     allow_credentials |-> allow_credentials,
     allow_methods     |-> allow_methods,
     allow_headers     |-> allow_headers]

\* Starlette.add_middleware: self.user_middleware.insert(0, Middleware(cls, **options))
add_middleware(a, cls, options) ==
    [a EXCEPT !.user_middleware = <<[cls |-> cls, options |-> options]>> \o @]

(***************************************************************************)
(* main.py line 18: app.include_router(api_router, prefix="/api").         *)
(* Every route of the router is added to the application's own route       *)
(* table with the prefix put in front of its path.                         *)
(***************************************************************************)

prefix == <<"api">>

\* Variant: the router included a second time.
include_router_twice(a, router, pfx) ==
    [a EXCEPT !.routes = @ \o
        [i \in 1..(2 * Len(router.routes)) |->
            [path     |-> pfx \o router.routes[((i - 1) % Len(router.routes)) + 1].path,
             methods  |-> router.routes[((i - 1) % Len(router.routes)) + 1].methods,
             endpoint |-> router.routes[((i - 1) % Len(router.routes)) + 1].endpoint,
             owner    |-> "api_router"]]]

\* Variant: the prefix left out.
include_router_unprefixed(a, router, pfx) ==
    [a EXCEPT !.routes = @ \o
        [i \in 1..Len(router.routes) |->
            [path     |-> router.routes[i].path,
             methods  |-> router.routes[i].methods,
             endpoint |-> router.routes[i].endpoint,
             owner    |-> "api_router"]]]

include_router(a, router, pfx) ==
    [a EXCEPT !.routes = @ \o
        [i \in 1..Len(router.routes) |->
            [path     |-> pfx \o router.routes[i].path,
             methods  |-> router.routes[i].methods,
             endpoint |-> router.routes[i].endpoint,
             owner    |-> "api_router"]]]

(***************************************************************************)
(* main.py lines 21-23: @app.get("/") def root().                          *)
(***************************************************************************)

\* Variant: the root route declared with a path parameter.
root_route_path_param == <<"{id}">>

root_route_path == <<"">>
root_route_methods == {"GET"}

\* app.get(path)(func): one more route at the end of the table.
add_api_route(a, path, methods, endpoint) ==
    [a EXCEPT !.routes =
        Append(@, [path |-> path, methods |-> methods,
                   endpoint |-> endpoint, owner |-> "app"])]

\* Variants: a body with another key; a body that counts the requests.
root_returns_title(s, served, concurrent) == [title |-> s.APP_NAME]
root_counts_hits(s, served, concurrent) == [name |-> s.APP_NAME, hits |-> served]

\* def root(): return {"name": settings.APP_NAME}
\* The dict it returns, as a function from keys to values.  The arguments
\* are the process state in scope when it runs (the settings object, the
\* number of requests answered so far and the number being served); it
\* reads the settings object and nothing else, and assigns nothing.
root(s, served, concurrent) == [name |-> s.APP_NAME]

(***************************************************************************)
(* CORSMiddleware, as configured by the options above.                     *)
(***************************************************************************)

ALL_METHODS == <<"DELETE", "GET", "HEAD", "OPTIONS", "PATCH", "POST", "PUT">>
\* sorted(SAFELISTED_HEADERS)
SAFELISTED_HEADERS == <<"Accept", "Accept-Language", "Content-Language", "Content-Type">>
\* str(max_age), max_age keeps its default
MAX_AGE == "600"

\* h.lower(), on the header names the model uses
Lower(h) ==
    CASE h = "Accept" -> "accept"
      [] h = "Accept-Language" -> "accept-language"
      [] h = "Content-Language" -> "content-language"
      [] h = "Content-Type" -> "content-type"
      [] OTHER -> h

\* CORSMiddleware.__init__: the attributes derived from the options.
cors_allow_methods(o) ==
    IF "*" \in Range(o.allow_methods) THEN ALL_METHODS ELSE o.allow_methods
cors_allow_all_origins(o) == "*" \in Range(o.allow_origins)
cors_allow_all_headers(o) == "*" \in Range(o.allow_headers)
cors_preflight_explicit_allow_origin(o) ==
    ~cors_allow_all_origins(o) \/ o.allow_credentials
\* [h.lower() for h in sorted(SAFELISTED_HEADERS | set(allow_headers))], as a set
cors_allow_headers(o) ==
    {Lower(h) : h \in Range(SAFELISTED_HEADERS) \cup Range(o.allow_headers)}

cors_simple_headers(o) ==
    (IF cors_allow_all_origins(o)
        THEN "Access-Control-Allow-Origin" :> "*" ELSE <<>>)
    @@ (IF o.allow_credentials
        THEN "Access-Control-Allow-Credentials" :> "true" ELSE <<>>)

cors_preflight_headers(o) ==
    (IF cors_preflight_explicit_allow_origin(o)
        THEN "Vary" :> "Origin"
        ELSE "Access-Control-Allow-Origin" :> "*")
    @@ ("Access-Control-Allow-Methods" :> Join(cors_allow_methods(o)))
    @@ ("Access-Control-Max-Age" :> MAX_AGE)
    @@ (IF ~cors_allow_all_headers(o)
        THEN "Access-Control-Allow-Headers" :> cors_allow_headers(o) ELSE <<>>)
    @@ (IF o.allow_credentials
        THEN "Access-Control-Allow-Credentials" :> "true" ELSE <<>>)

\* CORSMiddleware.is_allowed_origin (allow_origin_regex keeps its default, None)
is_allowed_origin(o, origin) ==
    \/ cors_allow_all_origins(o)
    \/ origin \in Range(o.allow_origins)

\* A response: status, headers, body.
Response(status, headers, body) ==
    [status |-> status, headers |-> headers, body |-> body]

\* CORSMiddleware.preflight_response
preflight_failures(o, request_headers) ==
    (IF is_allowed_origin(o, request_headers["origin"]) THEN <<>> ELSE <<"origin">>)
    \o (IF request_headers["access-control-request-method"] \in Range(cors_allow_methods(o))
        THEN <<>> ELSE <<"method">>)
    \o (IF /\ ~cors_allow_all_headers(o)
           /\ "access-control-request-headers" \in DOMAIN request_headers
           /\ \E h \in Range(request_headers["access-control-request-headers"]) :
                  h \notin cors_allow_headers(o)
        THEN <<"headers">> ELSE <<>>)

preflight_response(o, request_headers) ==
    LET headers ==
            (IF /\ is_allowed_origin(o, request_headers["origin"])
                /\ cors_preflight_explicit_allow_origin(o)
             THEN "Access-Control-Allow-Origin" :> request_headers["origin"]
             ELSE <<>>)
            @@ (IF /\ cors_allow_all_headers(o)
                   /\ "access-control-request-headers" \in DOMAIN request_headers
                THEN "Access-Control-Allow-Headers" :>
                         request_headers["access-control-request-headers"]
                ELSE <<>>)
            @@ cors_preflight_headers(o)
        failures == preflight_failures(o, request_headers)
    IN  IF Len(failures) > 0
        THEN Response(400, headers, [text |-> "Disallowed CORS " \o Join(failures)])
        ELSE Response(200, headers, [text |-> "OK"])

\* CORSMiddleware.send: the headers of the response the wrapped application
\* produced for a request that carries an Origin header.
simple_response_headers(o, request_headers, response_headers) ==
    LET origin == request_headers["origin"]
        has_cookie == "cookie" \in DOMAIN request_headers
        explicit ==
            \/ cors_allow_all_origins(o) /\ has_cookie
            \/ ~cors_allow_all_origins(o) /\ is_allowed_origin(o, origin)
    IN  (IF explicit
         THEN ("Access-Control-Allow-Origin" :> origin) @@ ("Vary" :> "Origin")
         ELSE <<>>)
        @@ cors_simple_headers(o)
        @@ response_headers

\* CORSMiddleware.__call__: does the middleware answer the request itself?
is_preflight(request) ==
    /\ "origin" \in DOMAIN request.headers
    /\ request.method = "OPTIONS"
    /\ "access-control-request-method" \in DOMAIN request.headers

(***************************************************************************)
(* Routing: the application's router walks its route table in order.       *)
(***************************************************************************)

\* A "{name}" segment of a route path matches any non-empty segment.
IsParam(seg) == seg = "{id}"

\* The compiled path regex of a route, applied to a request path.
path_matches(pattern, path) ==
    /\ Len(pattern) = Len(path)
    /\ \A i \in 1..Len(pattern) :
          \/ ~IsParam(pattern[i]) /\ pattern[i] = path[i]
          \/ IsParam(pattern[i]) /\ path[i] # ""

\* Route.matches: "FULL", "PARTIAL" (the path matches, the method does not)
\* or "NONE".
route_matches(route, method, path) ==
    IF ~path_matches(route.path, path) THEN "NONE"
    ELSE IF method \notin route.methods THEN "PARTIAL"
    ELSE "FULL"

\* path with its trailing slash toggled, as redirect_slashes tries it
redirect_path(path) ==
    IF EndsWithSlash(path) THEN RStrip(path) ELSE Append(path, "")

\* Router.app: what the route table does with a method and a path.
\*   [kind |-> "route", index |-> i]   route i handles the request
\*   [kind |-> "method_not_allowed"]   a route matches the path only
\*   [kind |-> "redirect"]             redirect_slashes applies
\*   [kind |-> "not_found"]            the default handler
dispatch(routes, method, path) ==
    LET full == {i \in 1..Len(routes) : route_matches(routes[i], method, path) = "FULL"}
        partial == {i \in 1..Len(routes) : route_matches(routes[i], method, path) = "PARTIAL"}
    IN  IF full # {}
        THEN [kind |-> "route", index |-> CHOOSE i \in full : \A j \in full : i <= j]
        ELSE IF partial # {}
        THEN [kind |-> "method_not_allowed"]
        ELSE IF /\ path # <<"">>
                /\ \E i \in 1..Len(routes) :
                      route_matches(routes[i], method, redirect_path(path)) # "NONE"
        THEN [kind |-> "redirect"]
        ELSE [kind |-> "not_found"]

\* The result of calling an ASGI layer: either a response or an exception
\* (raised), with the endpoint that was invoked, if any, and the request as
\* that endpoint received it.
NoEndpoint == [owner |-> "none", endpoint |-> "none", delivered |-> Undefined]

Result(response, responder, invoked) ==
    [raised |-> FALSE, response |-> response, responder |-> responder,
     invoked |-> invoked]
Raised(invoked) ==
    [raised |-> TRUE, response |-> Undefined, responder |-> "none",
     invoked |-> invoked]

\* Route.handle for a fully matching route: the endpoint runs on the request.
endpoint_call(route, request, s, outcome, served, concurrent) ==
    LET invoked == [owner |-> route.owner, endpoint |-> route.endpoint,
                    delivered |-> request]
    IN  CASE route.owner = "app" ->
               Result(Response(200, "content-type" :> "application/json",
                               [json |-> root(s, served, concurrent)]),
                      "endpoint", invoked)
          [] route.owner = "docs" ->
               Result(Response(200, <<>>, [text |-> route.endpoint]),
                      "endpoint", invoked)
          [] route.owner = "api_router" /\ outcome = "raise" ->
               Raised(invoked)
          [] route.owner = "api_router" /\ outcome = "404" ->
               Result(Response(404, <<>>, [opaque |-> route.endpoint]),
                      "endpoint", invoked)
          [] OTHER ->
               Result(Response(200, <<>>, [opaque |-> route.endpoint]),
                      "endpoint", invoked)

\* The router with the exception handlers around it.
router_call(a, request, s, outcome, served, concurrent) ==
    LET d == dispatch(a.routes, request.method, request.path)
    IN  CASE d.kind = "route" ->
               endpoint_call(a.routes[d.index], request, s, outcome, served, concurrent)
          [] d.kind = "method_not_allowed" ->
               Result(Response(405, <<>>, [json |-> [detail |-> "Method Not Allowed"]]),
                      "router", NoEndpoint)
          [] d.kind = "redirect" ->
               Result(Response(307, "location" :> redirect_path(request.path),
                               [text |-> ""]),
                      "router", NoEndpoint)
          [] OTHER ->
               Result(Response(404, <<>>, [json |-> [detail |-> "Not Found"]]),
                      "router", NoEndpoint)

\* CORSMiddleware.__call__ around the layers below it.
cors_call(o, request, inner) ==
    IF "origin" \notin DOMAIN request.headers THEN inner
    ELSE IF is_preflight(request)
    THEN Result(preflight_response(o, request.headers), "CORSMiddleware", NoEndpoint)
    ELSE IF inner.raised THEN inner
    ELSE [inner EXCEPT !.response.headers =
              simple_response_headers(o, request.headers, @)]

\* The user middleware, outermost first, around the router.
RECURSIVE middleware_call(_, _, _, _, _, _, _)
middleware_call(mws, a, request, s, outcome, served, concurrent) ==
    IF Len(mws) = 0
    THEN router_call(a, request, s, outcome, served, concurrent)
    ELSE IF is_preflight(request)
    THEN cors_call(mws[1].options, request, Undefined)
    ELSE cors_call(mws[1].options, request,
                   middleware_call(Tail(mws), a, request, s, outcome, served, concurrent))

\* The application called on a request: ServerErrorMiddleware turns an
\* exception from below into a plain 500.
app_call(a, request, s, outcome, served, concurrent) ==
    LET r == middleware_call(a.user_middleware, a, request, s, outcome, served, concurrent)
    IN  IF r.raised
        THEN Result(Response(500, <<>>, [text |-> "Internal Server Error"]),
                    "ServerErrorMiddleware", r.invoked)
        ELSE r

(***************************************************************************)
(* The requests a client may send.                                         *)
(***************************************************************************)

Paths ==
    { <<"">>,                        \* /
      <<"", "">>,                    \* //
      <<"api">>,                     \* /api
      <<"api", "">>,                 \* /api/
      <<"api", "items">>,            \* /api/items
      <<"api", "items", "7">>,       \* /api/items/7
      <<"apix">>,                    \* /apix
      <<"docs">>,                    \* /docs
      <<"docs", "">>,                \* /docs/
      <<"items">> }                  \* /items
CrossOriginPaths ==
    { <<"">>, <<"api", "items">>, <<"api", "items", "7">>, <<"docs">>, <<"items">> }
PreflightPaths == { <<"">>, <<"api", "items">>, <<"items">> }

AllowedOrigin == "http://localhost:5173"
OtherOrigins == {"http://evil.example.com", "http://localhost:5173/"}
Origins == {AllowedOrigin} \cup OtherOrigins
RequestedMethods == {"PUT", "PROPFIND"}
RequestedHeaders == {<<"x-custom", "authorization">>}

NoHeaders == <<>>
OriginHeaders == {"origin" :> o : o \in Origins}
PreflightHeaders ==
    {("origin" :> o) @@ ("access-control-request-method" :> m) :
        o \in Origins, m \in RequestedMethods}
    \cup
    {("origin" :> o) @@ ("access-control-request-method" :> "PUT")
                     @@ ("access-control-request-headers" :> h) :
        o \in Origins, h \in RequestedHeaders}

Request(method, path, headers, body) ==
    [method |-> method, path |-> path, headers |-> headers, body |-> body]

Requests ==
    \* requests of a same-origin or non-browser client
    {Request("GET", p, NoHeaders, "") : p \in Paths}
    \cup {Request("HEAD", p, NoHeaders, "") : p \in { <<"">>, <<"docs">> }}
    \cup {Request("OPTIONS", p, NoHeaders, "") : p \in { <<"">>, <<"api", "items">> }}
    \cup {Request("POST", p, NoHeaders, "{}") : p \in PreflightPaths}
    \* cross-origin requests
    \cup {Request("GET", p, h, "") : p \in CrossOriginPaths, h \in OriginHeaders}
    \cup {Request("POST", p, h, "{}") : p \in { <<"">>, <<"api", "items">> }, h \in OriginHeaders}
    \* their preflights
    \cup {Request("OPTIONS", p, h, "") : p \in PreflightPaths, h \in PreflightHeaders}

(***************************************************************************)
(* The module body of main.py, statement by statement.                     *)
(***************************************************************************)

StartupSteps ==
    {"import_settings", "import_router", "create_app", "add_middleware",
     "include_router", "register_root"}

\* Variant: the exception swallowed, the module goes on loading.
on_startup_error_swallowed(step) == "loaded"

\* An exception at module level is not caught anywhere in main.py: the
\* import of the module fails and the process exits.
on_startup_error(step) == "failed"

\* line 4: from app.core.settings import settings
ImportSettings ==
    /\ pc = "import_settings"
    /\ \E s \in SettingsObjects : settings' = s
    /\ pc' = "import_router"
    /\ UNCHANGED <<api_router, app, startup_error, inFlight, nServed, last, firstRoot>>

\* line 5: from app.api.routes import router as api_router
ImportRouter ==
    /\ pc = "import_router"
    /\ \E r \in RouterObjects : api_router' = r
    /\ pc' = "create_app"
    /\ UNCHANGED <<settings, app, startup_error, inFlight, nServed, last, firstRoot>>

\* line 7: app = FastAPI(title=settings.APP_NAME)
CreateApp ==
    /\ pc = "create_app"
    /\ app' = FastAPI(settings.APP_NAME)
    /\ pc' = "add_middleware"
    /\ UNCHANGED <<settings, api_router, startup_error, inFlight, nServed, last, firstRoot>>

\* lines 10-16: app.add_middleware(CORSMiddleware, ...)
AddMiddleware ==
    /\ pc = "add_middleware"
    /\ app' = add_middleware(app, "CORSMiddleware", cors_options)
    /\ pc' = "include_router"
    /\ UNCHANGED <<settings, api_router, startup_error, inFlight, nServed, last, firstRoot>>

\* line 18: app.include_router(api_router, prefix="/api")
IncludeRouter ==
    /\ pc = "include_router"
    /\ app' = include_router(app, api_router, prefix)
    /\ pc' = "register_root"
    /\ UNCHANGED <<settings, api_router, startup_error, inFlight, nServed, last, firstRoot>>

\* lines 21-23: @app.get("/") def root()
RegisterRoot ==
    /\ pc = "register_root"
    /\ app' = add_api_route(app, root_route_path, root_route_methods, "root")
    /\ pc' = "loaded"
    /\ UNCHANGED <<settings, api_router, startup_error, inFlight, nServed, last, firstRoot>>

\* Any of the statements raises.
StartupFails ==
    /\ pc \in StartupSteps
    /\ pc' = on_startup_error(pc)
    /\ startup_error' = TRUE
    /\ UNCHANGED <<settings, api_router, app, inFlight, nServed, last, firstRoot>>

\* The module was imported: the server starts handing requests to app.
StartServing ==
    /\ pc = "loaded"
    /\ pc' = "serving"
    /\ UNCHANGED <<settings, api_router, app, startup_error, inFlight, nServed, last, firstRoot>>

(***************************************************************************)
(* Serving.                                                                *)
(***************************************************************************)

\* The server accepts a connection; its request is now being served.
Accept ==
    /\ pc = "serving"
    /\ inFlight < MaxInFlight
    /\ nServed + inFlight < MaxRequests
    /\ inFlight' = inFlight + 1
    /\ UNCHANGED <<pc, settings, api_router, app, startup_error, nServed, last, firstRoot>>

IsRootGet(request) == request.method = "GET" /\ request.path = <<"">>

Wiring == [settings |-> settings, api_router |-> api_router, app |-> app]

\* What may happen inside the application while it answers a request: a
\* handler of the router, when one is invoked, behaves in one of the ways
\* above; nothing else in the application has a choice.
Outcomes(a, request) ==
    LET d == dispatch(a.routes, request.method, request.path)
    IN  IF /\ ~is_preflight(request)
           /\ d.kind = "route"
           /\ a.routes[d.index].owner = "api_router"
        THEN HandlerOutcomes
        ELSE {"200"}

\* One of the requests being served is answered.
Respond ==
    /\ pc = "serving"
    /\ inFlight > 0
    /\ UNCHANGED <<pc, settings, api_router, app, startup_error>>
    /\ \E request \in Requests :
       \E outcome \in Outcomes(app, request) :
          LET r == app_call(app, request, settings, outcome, nServed, inFlight - 1)
              exchange == [request |-> request, response |-> r.response,
                           responder |-> r.responder, invoked |-> r.invoked,
                           concurrent |-> inFlight - 1]
          IN  /\ last' = exchange
              /\ firstRoot' =
                    IF IsRootGet(request) /\ ~IsDefined(firstRoot)
                    THEN [exchange |-> exchange, wiring |-> Wiring']
                    ELSE firstRoot
    /\ inFlight' = inFlight - 1
    /\ nServed' = nServed + 1

Init ==
    /\ pc = "import_settings"
    /\ settings = Undefined
    /\ api_router = Undefined
    /\ app = Undefined
    /\ startup_error = FALSE
    /\ inFlight = 0
    /\ nServed = 0
    /\ last = Undefined
    /\ firstRoot = Undefined

Next ==
    \/ ImportSettings
    \/ ImportRouter
    \/ CreateApp
    \/ AddMiddleware
    \/ IncludeRouter
    \/ RegisterRoot
    \/ StartupFails
    \/ StartServing
    \/ Accept
    \/ Respond

Spec == Init /\ [][Next]_vars

(***************************************************************************)
(* Properties.  Each is stated about the most recent exchange `last`,      *)
(* which ranges over every request answered in every reachable state.      *)
(***************************************************************************)

ACAO == "Access-Control-Allow-Origin"
ACAC == "Access-Control-Allow-Credentials"
ACAM == "Access-Control-Allow-Methods"
ACAH == "Access-Control-Allow-Headers"

Answered == IsDefined(last)
HasOrigin(request) == "origin" \in DOMAIN request.headers
\* "/api/..." : a path under "/api/"
UnderApiSlash(path) == Len(path) >= 2 /\ path[1] = "api"
\* "/api" or a path under it
UnderApiPrefix(path) == Len(path) >= 1 /\ path[1] = "api"
\* The paths FastAPI serves its documentation on.
DocsPaths == { <<"openapi.json">>, <<"docs">>, <<"docs", "oauth2-redirect">>, <<"redoc">> }

C2_PreflightAllowedOrigin ==
    (Answered /\ is_preflight(last.request)
              /\ last.request.headers["origin"] = "http://localhost:5173") =>
        /\ ACAO \in DOMAIN last.response.headers
        /\ last.response.headers[ACAO] = "http://localhost:5173"

\* C2 witness: such a preflight on a path under "/api".
C2_Witness ==
    /\ Answered /\ is_preflight(last.request)
    /\ last.request.headers["origin"] = "http://localhost:5173"
    /\ last.request.path = <<"api", "items">>
    /\ last.response.headers[ACAO] = "http://localhost:5173"

\* C3: a preflight whose Origin is anything but http://localhost:5173 is
\* never answered with an Access-Control-Allow-Origin header matching it.
C3_PreflightOtherOrigin ==
    (Answered /\ is_preflight(last.request)
              /\ last.request.headers["origin"] # "http://localhost:5173") =>
        ~(/\ ACAO \in DOMAIN last.response.headers
          /\ last.response.headers[ACAO] \in {last.request.headers["origin"], "*"})

\* C3 witness: a preflight from http://evil.example.com was answered.
C3_Witness ==
    /\ Answered /\ is_preflight(last.request)
    /\ last.request.headers["origin"] = "http://evil.example.com"
    /\ ACAO \notin DOMAIN last.response.headers

\* C4 as stated: every request, preflight or actual, whose Origin is not
\* http://localhost:5173 is rejected and reaches neither the root handler
\* nor the router.
C4_Original ==
    (Answered /\ HasOrigin(last.request)
              /\ last.request.headers["origin"] # "http://localhost:5173") =>
        /\ last.response.status = 400
        /\ last.invoked.owner \notin {"app", "api_router"}

\* C4: a preflight whose Origin is not http://localhost:5173 is rejected by
\* the CORS middleware with status 400 and reaches no handler; an actual
\* request from such an origin is not rejected: the middleware passes it on,
\* GET "/" is answered by the root handler with 200, and the middleware puts
\* no Access-Control-Allow-Origin header on the response.
C4_OtherOriginPreflightRejected ==
    (Answered /\ HasOrigin(last.request)
              /\ last.request.headers["origin"] # "http://localhost:5173") =>
        IF is_preflight(last.request)
        THEN /\ last.response.status = 400
             /\ last.responder = "CORSMiddleware"
             /\ last.invoked.owner = "none"
        ELSE /\ last.responder # "CORSMiddleware"
             /\ ACAO \notin DOMAIN last.response.headers
             /\ IsRootGet(last.request) =>
                    /\ last.invoked.owner = "app"
                    /\ last.response.status = 200

\* C4 witness: GET "/" from http://evil.example.com answered by the root
\* handler.
C4_Witness ==
    /\ Answered /\ IsRootGet(last.request)
    /\ HasOrigin(last.request)
    /\ last.request.headers["origin"] = "http://evil.example.com"
    /\ last.invoked.endpoint = "root"
    /\ last.response.status = 200

\* C5 as stated: every request whose path is under "/api/" is handed to the
\* router's routes, unmodified, and is not answered by anything in front of
\* them nor by the root endpoint.
C5_Original ==
    (Answered /\ UnderApiSlash(last.request.path)) =>
        /\ last.responder # "CORSMiddleware"
        /\ last.invoked.owner \notin {"app", "docs"}
        /\ last.invoked.owner = "api_router" => last.invoked.delivered = last.request

\* C5: a request whose path is under "/api/" is never answered by the root
\* endpoint.  Unless it is a CORS preflight, it is matched against the
\* router's routes under "/api": a route that matches its path and method
\* receives it with method, path, headers and body unmodified.  A CORS
\* preflight is answered by the CORS middleware and reaches no handler.
C5_ApiDelegation ==
    (Answered /\ UnderApiSlash(last.request.path)) =>
        /\ last.invoked.owner \notin {"app", "docs"}
        /\ IF is_preflight(last.request)
           THEN /\ last.responder = "CORSMiddleware"
                /\ last.invoked.owner = "none"
           ELSE /\ last.responder # "CORSMiddleware"
                /\ last.invoked.owner = "api_router" =>
                       last.invoked.delivered = last.request
                /\ (\E i \in 1..Len(api_router.routes) :
                       /\ path_matches(<<"api">> \o api_router.routes[i].path,
                                       last.request.path)
                       /\ last.request.method \in api_router.routes[i].methods)
                   => last.invoked.owner = "api_router"

\* C5 witness: a cross-origin POST with a body to /api/items reached the
\* router's handler as it was sent.
C5_Witness ==
    /\ Answered
    /\ last.request.path = <<"api", "items">>
    /\ last.request.method = "POST"
    /\ last.request.body = "{}"
    /\ HasOrigin(last.request)
    /\ last.invoked.owner = "api_router"
    /\ last.invoked.delivered = last.request

\* C6 as stated: a preflight from http://localhost:5173 is answered with
\* credentials allowed and with every requested method and every requested
\* header allowed, whatever method and header names it asks for.
C6_Original ==
    (Answered /\ is_preflight(last.request)
              /\ last.request.headers["origin"] = "http://localhost:5173") =>
        /\ ACAC \in DOMAIN last.response.headers
        /\ last.response.headers[ACAC] = "true"
        /\ last.response.status = 200
        /\ "access-control-request-headers" \in DOMAIN last.request.headers =>
               /\ ACAH \in DOMAIN last.response.headers
               /\ last.response.headers[ACAH] =
                      last.request.headers["access-control-request-headers"]

\* C6: a preflight from http://localhost:5173 is answered with credentials
\* allowed and with every requested header allowed, whatever header names it
\* asks for; a requested method is allowed when it is one of DELETE, GET,
\* HEAD, OPTIONS, PATCH, POST, PUT (the methods "*" stands for), and the
\* preflight is answered 200; for any other requested method the answer is
\* 400 "Disallowed CORS method".
C6_PreflightPermissive ==
    (Answered /\ is_preflight(last.request)
              /\ last.request.headers["origin"] = "http://localhost:5173") =>
        /\ ACAC \in DOMAIN last.response.headers
        /\ last.response.headers[ACAC] = "true"
        /\ ACAM \in DOMAIN last.response.headers
        /\ last.response.headers[ACAM] = "DELETE, GET, HEAD, OPTIONS, PATCH, POST, PUT"
        /\ "access-control-request-headers" \in DOMAIN last.request.headers =>
               /\ ACAH \in DOMAIN last.response.headers
               /\ last.response.headers[ACAH] =
                      last.request.headers["access-control-request-headers"]
        /\ IF last.request.headers["access-control-request-method"] \in
                 {"DELETE", "GET", "HEAD", "OPTIONS", "PATCH", "POST", "PUT"}
           THEN /\ last.response.status = 200
                /\ last.response.body = [text |-> "OK"]
           ELSE /\ last.response.status = 400
                /\ last.response.body = [text |-> "Disallowed CORS method"]

\* C6 witness: a preflight from http://localhost:5173 asking for PUT and for
\* two headers was answered 200.
C6_Witness ==
    /\ Answered /\ is_preflight(last.request)
    /\ last.request.headers["origin"] = "http://localhost:5173"
    /\ last.request.headers["access-control-request-method"] = "PUT"
    /\ "access-control-request-headers" \in DOMAIN last.request.headers
    /\ last.response.status = 200
    /\ last.response.headers[ACAH] = <<"x-custom", "authorization">>

\* The application as main.py assembles it, complete.
FullyAssembled ==
    /\ IsDefined(settings) /\ IsDefined(api_router) /\ IsDefined(app)
    /\ Len(app.user_middleware) = 1
    /\ \E i \in 1..Len(app.routes) : app.routes[i].endpoint = "root"
    /\ Cardinality({i \in 1..Len(app.routes) : app.routes[i].owner = "api_router"})
           = Len(api_router.routes)

\* C7: once a startup step has failed the process is in the failed state,
\* never serving and with no request accepted or answered; and a request is
\* accepted or answered only by the serving, fully assembled application.
C7_FailFast ==
    /\ startup_error =>
           /\ pc = "failed"
           /\ ~Answered
           /\ inFlight = 0
           /\ nServed = 0
    /\ (Answered \/ inFlight > 0 \/ nServed > 0) =>
           /\ pc = "serving"
           /\ ~startup_error
           /\ FullyAssembled

\* C7 witness: startup failed after the middleware was installed, before
\* the root route was registered.
C7_Witness ==
    /\ startup_error
    /\ pc = "failed"
    /\ IsDefined(app)
    /\ Len(app.user_middleware) = 1
    /\ ~(\E i \in 1..Len(app.routes) : app.routes[i].endpoint = "root")

C9_WiringReadOnly ==
    pc \in {"loaded", "serving"} =>
        /\ Len(app.user_middleware) = 1
        /\ app.user_middleware[1].cls = "CORSMiddleware"
        /\ app.user_middleware[1].options.allow_origins = <<"http://localhost:5173">>
        /\ LET mounted == {i \in 1..Len(app.routes) : app.routes[i].owner = "api_router"}
           IN  /\ Cardinality(mounted) = Len(api_router.routes)
               /\ \A k \in 1..Len(api_router.routes) :
                     Cardinality({i \in mounted :
                         /\ app.routes[i].path = <<"api">> \o api_router.routes[k].path
                         /\ app.routes[i].methods = api_router.routes[k].methods
                         /\ app.routes[i].endpoint = api_router.routes[k].endpoint}) = 1
        /\ Cardinality({i \in 1..Len(app.routes) : app.routes[i].endpoint = "root"}) = 1
        /\ \A i \in 1..Len(app.routes) :
              app.routes[i].endpoint = "root" =>
                  /\ app.routes[i].path = <<"">>
                  /\ app.routes[i].methods = {"GET"}
                  /\ app.routes[i].owner = "app"

\* C9 witness: the wiring after a request was answered while another one,
\* still in flight, was being served.
C9_Witness ==
    /\ pc = "serving"
    /\ nServed = 1
    /\ inFlight = 1
    /\ Answered /\ last.concurrent = 1
    /\ app.user_middleware[1].options.allow_origins = <<"http://localhost:5173">>

\* C10 as stated: a request to a path that is neither "/" nor under "/api"
\* is answered 404 and invokes neither the root handler nor the router; a
\* request to "/" is never answered by the router.
C10_Original ==
    Answered =>
        /\ (last.request.path # <<"">> /\ ~UnderApiPrefix(last.request.path)) =>
               /\ last.response.status = 404
               /\ last.invoked.owner \notin {"app", "api_router"}
        /\ last.request.path = <<"">> => last.invoked.owner # "api_router"

\* C10: for a request that is not a CORS preflight: if its path is neither
\* "/", nor under "/api", nor a documentation path of the framework
\* (/openapi.json, /docs, /docs/oauth2-redirect, /redoc) with or without
\* trailing slashes, it is answered 404 and invokes neither the root handler
\* nor the router; a request to "/" is never answered by the router, and a
\* GET "/" is answered by the root handler.  A CORS preflight is answered by
\* the CORS middleware on every path and invokes no handler.
C10_PathDispatch ==
    Answered =>
        IF is_preflight(last.request)
        THEN /\ last.responder = "CORSMiddleware"
             /\ last.invoked.owner = "none"
        ELSE /\ (/\ last.request.path # <<"">>
                 /\ ~UnderApiPrefix(last.request.path)
                 /\ RStrip(last.request.path) \notin DocsPaths) =>
                    /\ last.response.status = 404
                    /\ last.invoked.owner = "none"
             /\ last.request.path = <<"">> => last.invoked.owner # "api_router"
             /\ IsRootGet(last.request) => last.invoked.endpoint = "root"
             /\ last.request.path # <<"">> => last.invoked.endpoint # "root"

\* C10 witness: GET /items, a path the router serves only under "/api", was
\* answered 404 with no handler invoked.
C10_Witness ==
    /\ Answered
    /\ last.request.method = "GET"
    /\ last.request.path = <<"items">>
    /\ last.response.status = 404
    /\ last.invoked.owner = "none"

====
